---------------------------- MODULE Spec2Model ----------------------------
(***************************************************************************)
(* Model of the bitmap-synchronised freelist of MihirLuthra/freelist:      *)
(* Dump (src/src/freelist.rs, one slot pool with its two atomic bitmaps)   *)
(* and FreeList<N> (an array of N pools indexed by log2 of the size).      *)
(*                                                                         *)
(* Every atomic operation of the source (a load, a compare_exchange_weak)  *)
(* and every access to the dump[] array is one step of the thread that     *)
(* makes it.  Spec interleaves these steps in program order: the atomics   *)
(* are on one modification order per bitmap and each access to dump[] is   *)
(* made where the source makes it.  The dump[] array is not atomic and the *)
(* claim compare-exchange of recycle() and clear() is Ordering::Relaxed,   *)
(* so nothing orders the read of dump[i] after it: SpecRelaxed adds the    *)
(* read performed as soon as the index is known (Recycle_hoist,            *)
(* Clear_hoist).                                                           *)
(***************************************************************************)
EXTENDS Integers, FiniteSets, Sequences, TLC

\* ------------------------------------------------------------------ bounds

\* usize::BITS, the number of slots of a pool, scaled down from 64.
WordBits == 2

\* N of FreeList<T, N>.
NBuckets == 2

\* Number of threads that call into the pool.
NThreads == 2

\* Distinct non-null addresses handed to throw().
MaxAddr == 3

\* Number of spurious failures of compare_exchange_weak in one run.
MaxSpurious == 1

\* Width of size_t in the calls of the calloc wrapper, scaled down from 64
\* and wider than NBuckets, as 64 is wider than the 11 buckets of FREELIST.
SizeBits == 3

\* Number of calls of calloc, free and clear_freelist in one run.
MaxCalls == 6

\* Number of those calls in a run where two threads make them.
MaxRaced == 5

\* Number of those calls in a run where calloc is given any two words.
MaxWordCalls == 3

RECURSIVE Pow2(_)
Pow2(n) == IF n = 0 THEN 1 ELSE 2 * Pow2(n - 1)

BITS == WordBits
Slots == 0 .. (BITS - 1)
Buckets == 0 .. (NBuckets - 1)
Threads == 1 .. NThreads
Null == 0
Addrs == 1 .. MaxAddr
Vals == 0 .. MaxAddr
NoVal == -1

\* Sizes passed to the FreeList methods: zero, every size that has a bucket,
\* sizes that are no power of two, and the first power of two without bucket.
Sizes == 0 .. Pow2(NBuckets)

\* ------------------------------------------------------- bit operations

AllOnes == Pow2(BITS) - 1

Bit(x, i) == (x \div Pow2(i)) % 2

\* bit_fiddler::set!(x, usize, i)
set(x, i) == IF Bit(x, i) = 1 THEN x ELSE x + Pow2(i)

\* bit_fiddler::unset!(x, usize, i)
unset(x, i) == IF Bit(x, i) = 1 THEN x - Pow2(i) ELSE x

RECURSIVE trailing_ones(_)
trailing_ones(x) == IF x % 2 = 1 THEN 1 + trailing_ones(x \div 2) ELSE 0

RECURSIVE tz(_, _)
tz(x, n) == IF n = 0 \/ x % 2 = 1 THEN 0 ELSE 1 + tz(x \div 2, n - 1)

\* usize::trailing_zeros: BITS when x = 0.
trailing_zeros(x) == tz(x, BITS)

RECURSIVE and_not(_, _, _)
and_not(x, y, n) ==
    IF n = 0 THEN 0
    ELSE (IF x % 2 = 1 /\ y % 2 = 0 THEN 1 ELSE 0)
         + 2 * and_not(x \div 2, y \div 2, n - 1)

\* x & !y on BITS-wide words
AndNot(x, y) == and_not(x, y, BITS)

BitSet(x) == {i \in Slots : Bit(x, i) = 1}

RECURSIVE count_ones(_)
count_ones(x) == IF x = 0 THEN 0 ELSE (x % 2) + count_ones(x \div 2)

\* Mutant: zero passes for a power of two.
is_power_of_two_or_zero(x) == count_ones(x) <= 1

\* usize::is_power_of_two
is_power_of_two(x) == count_ones(x) = 1

\* ------------------------------------------------------------------ state

VARIABLES
    writer_bitmap,   \* [Buckets -> word]   Dump.writer_bitmap
    reader_bitmap,   \* [Buckets -> word]   Dump.reader_bitmap
    dump,            \* [Buckets -> [Slots -> Vals]]   Dump.dump
    th,              \* [Threads -> record]: position and locals of each thread
    inserted,        \* addresses whose throw() returned Ok
    taken,           \* [Vals -> Nat]: times returned by a recycle()
    drained,         \* [Vals -> Nat]: times passed to a clear() closure
    deposited,       \* [Vals -> Sizes]: size an address was passed to
                     \* FreeList::throw with, 0 if it never was
    nextAddr,        \* next fresh address handed to throw()
    quietTakes,      \* recycle() calls that returned Some since the last
                     \* slot claim of a throw() and the last swap of a clear()
    nspurious,       \* spurious compare_exchange_weak failures so far
    MEMORY_MAP,      \* [Threads -> [Vals -> word]]: the thread-local map of
                     \* calloc.rs, 0 where it has no entry
    heap,            \* [Addrs -> bytes]: the live blocks of the host
                     \* allocator, NotLive where it has none
    held,            \* addresses returned by calloc() and not yet passed
                     \* to free()
    ncalls           \* calls of a function of calloc.rs made so far

vars == <<writer_bitmap, reader_bitmap, dump, th, inserted, taken, drained,
          deposited, nextAddr, quietTakes, nspurious, MEMORY_MAP, heap,
          held, ncalls>>

wrapper == <<MEMORY_MAP, heap, held, ncalls>>

\* heap[a] of an address the host allocator has not handed out.
NotLive == -1

shared == <<writer_bitmap, reader_bitmap, dump>>
ghosts == <<inserted, taken, drained, deposited>>

NoEarly == [i \in Slots |-> NoVal]
NoneFed == [a \in Vals |-> 0]

\* A thread outside any call.  pc is its position; op, bk, raw its call;
\* via the type whose method it called, size the size it passed to a
\* FreeList method; old_writer_bitmap .. retval the locals of the source;
\* early the slots read ahead of the claim; res, val the result of its last
\* call; present the addresses readable when its recycle() was called; solo
\* whether its FreeList call overlapped no other call; before the addresses
\* advertised when its clear() last observed reader_bitmap; snap the
\* addresses readable when its clear() swapped reader_bitmap; fed the
\* closure calls its clear() made; fn, nmemb, csize the function of
\* calloc.rs it called and the arguments of its calloc(), host the call of
\* the host allocator it made; back the address its free() found in
\* MEMORY_MAP, kept by the calloc() it calls next with the size recorded
\* for it; trip whether that free() found the bucket empty and no other
\* thread has called into calloc.rs since.
Idle ==
    [pc |-> "idle", op |-> "none", via |-> "Dump", size |-> 0, bk |-> 0,
     raw |-> Null,
     old_writer_bitmap |-> 0, old_reader_bitmap |-> 0,
     old_reader_bitmap_copy |-> 0, spot |-> 0, retval |-> NoVal,
     early |-> NoEarly, res |-> "none", val |-> Null,
     present |-> {}, solo |-> FALSE, before |-> {}, snap |-> {},
     fed |-> NoneFed,
     fn |-> "none", nmemb |-> 0, csize |-> 0, host |-> "none",
     back |-> NoVal, trip |-> FALSE]

\* Dump::new() for every bucket; no thread has called anything.
Init ==
    /\ writer_bitmap = [b \in Buckets |-> 0]
    /\ reader_bitmap = [b \in Buckets |-> 0]
    /\ dump = [b \in Buckets |-> [i \in Slots |-> Null]]
    /\ th = [t \in Threads |-> Idle]
    /\ inserted = {}
    /\ taken = [a \in Vals |-> 0]
    /\ drained = [a \in Vals |-> 0]
    /\ deposited = [a \in Vals |-> 0]
    /\ nextAddr = 1
    /\ quietTakes = 0
    /\ nspurious = 0
    /\ MEMORY_MAP = [t \in Threads |-> [a \in Vals |-> 0]]
    /\ heap = [a \in Addrs |-> NotLive]
    /\ held = {}
    /\ ncalls = 0

Set(t, r) == th' = [th EXCEPT ![t] = r]

\* The addresses of bucket b whose reader bit is set.
Readable(b) == {dump[b][i] : i \in BitSet(reader_bitmap[b])}

\* The addresses of every bucket whose reader bit is set.
FLReadable == UNION {Readable(b) : b \in Buckets}

\* What FreeList makes of the result of the Dump method it called:
\* .map_err(|_| Error::BucketFull), .ok_or(Error::BucketEmpty), Ok(()).
FL_result(via, res) ==
    IF via = "Dump" THEN res
    ELSE CASE res = "Err" -> "BucketFull"
           [] res = "None" -> "BucketEmpty"
           [] res = "Unit" -> "Ok"
           [] OTHER -> res

\* Where a function of calloc.rs goes on when its FreeList call returns.
Resume(fn) ==
    CASE fn = "calloc" -> "calloc_match"
      [] fn = "free" -> "free_match"
      [] fn = "clear_freelist" -> "clear_next"
      [] OTHER -> "idle"

\* The thread's call has returned `res` (with `val`); its locals are dead.
\* A call made by a function of calloc.rs returns into that function.
Returned(t, res, val) ==
    LET r == [Idle EXCEPT !.op = th[t].op, !.via = th[t].via,
                          !.size = th[t].size, !.bk = th[t].bk,
                          !.res = FL_result(th[t].via, res), !.val = val]
    IN  IF th[t].via = "Wrapper"
        THEN [r EXCEPT !.pc = Resume(th[t].fn), !.fn = th[t].fn,
                       !.raw = th[t].raw, !.nmemb = th[t].nmemb,
                       !.csize = th[t].csize, !.present = th[t].present,
                       !.solo = th[t].solo, !.back = th[t].back,
                       !.trip = th[t].trip]
        ELSE r

\* The history variables count the calls made on a Dump or a FreeList
\* directly, not those made through calloc.rs.
Counted(t) == th[t].via # "Wrapper"

\* Mutant: underlying_free is not called.
underlying_free_skip(ptr) == heap' = heap

\* underlying_free(ptr): the block at ptr is given back to the host.
underlying_free(ptr) ==
    heap' = IF ptr = Null THEN heap ELSE [heap EXCEPT ![ptr] = NotLive]

\* compare_exchange_weak(old, new): Ok when the bitmap holds `old`.
CasOk(cur, old) == cur = old

\* compare_exchange_weak(old, new): Err(cur), when the bitmap holds another
\* value, or spuriously although it holds `old`.
CasFails(cur, old) == cur # old \/ nspurious < MaxSpurious

\* Mutant: a failed compare-exchange leaves the expected value as it was.
CasErr_expected(cur, old) == old

\* Err(old) => old_..._bitmap = old: the value the bitmap was found to hold.
CasErr(cur, old) == cur

CountSpurious(cur, old) ==
    nspurious' = IF cur = old THEN nspurious + 1 ELSE nspurious

\* ------------------------------------------------------------ Dump::throw

\* Mutant: reports full while the last slot is free.
IsFull_early(first_empty_spot) == first_empty_spot >= BITS - 1

\* first_empty_spot == usize::BITS
IsFull(first_empty_spot) == first_empty_spot = BITS

\* Mutant: the claim does not set the writer bit.
ThrowNewWriter_keep(old, first_empty_spot) == old

\* set!(old_writer_bitmap, usize, first_empty_spot)
ThrowNewWriter(old, first_empty_spot) == set(old, first_empty_spot)

\* set!(old_reader_bitmap, usize, first_empty_spot)
ThrowNewReader(old, first_empty_spot) == set(old, first_empty_spot)

\* The caller hands a fresh address to throw() and throw() loads writer_bitmap.
Throw_load(t, b) ==
    /\ th[t].pc = "idle"
    /\ nextAddr <= MaxAddr
    /\ Set(t, [Idle EXCEPT !.pc = "throw_claim", !.op = "throw", !.bk = b,
                           !.raw = nextAddr,
                           !.old_writer_bitmap = writer_bitmap[b]])
    /\ nextAddr' = nextAddr + 1
    /\ UNCHANGED <<shared, ghosts, quietTakes, nspurious>>
    /\ UNCHANGED wrapper

\* One turn of the claim loop: full, or a compare-exchange on writer_bitmap.
Throw_claim(t) ==
    LET me == th[t]
        b == me.bk
        old == me.old_writer_bitmap
        first_empty_spot == trailing_ones(old)
    IN  /\ me.pc = "throw_claim"
        /\ \/ /\ IsFull(first_empty_spot)
              /\ Set(t, Returned(t, "Err", me.raw))
              /\ UNCHANGED <<shared, ghosts, quietTakes, nspurious>>
           \/ /\ ~IsFull(first_empty_spot)
              /\ CasOk(writer_bitmap[b], old)
              /\ writer_bitmap' =
                    [writer_bitmap EXCEPT ![b] = ThrowNewWriter(old, first_empty_spot)]
              /\ Set(t, [me EXCEPT !.pc = "throw_write",
                                   !.spot = first_empty_spot,
                                   !.old_writer_bitmap = 0])
              /\ quietTakes' = 0
              /\ UNCHANGED <<reader_bitmap, dump, ghosts, nspurious>>
           \/ /\ ~IsFull(first_empty_spot)
              /\ CasFails(writer_bitmap[b], old)
              /\ Set(t, [me EXCEPT !.old_writer_bitmap = CasErr(writer_bitmap[b], old)])
              /\ CountSpurious(writer_bitmap[b], old)
              /\ UNCHANGED <<shared, ghosts, quietTakes>>
        /\ UNCHANGED nextAddr
        /\ UNCHANGED wrapper

\* (*dump_ptr)[first_empty_spot] = raw
Throw_write(t) ==
    LET me == th[t]
    IN  /\ me.pc = "throw_write"
        /\ dump' = [dump EXCEPT ![me.bk][me.spot] = me.raw]
        /\ Set(t, [me EXCEPT !.pc = "throw_rload"])
        /\ UNCHANGED <<writer_bitmap, reader_bitmap, ghosts, nextAddr,
                       quietTakes, nspurious>>
        /\ UNCHANGED wrapper

\* self.reader_bitmap.load(Relaxed)
Throw_rload(t) ==
    LET me == th[t]
    IN  /\ me.pc = "throw_rload"
        /\ Set(t, [me EXCEPT !.pc = "throw_advertise",
                             !.old_reader_bitmap = reader_bitmap[me.bk]])
        /\ UNCHANGED <<shared, ghosts, nextAddr, quietTakes, nspurious>>
        /\ UNCHANGED wrapper

\* One turn of the advertise loop; throw() returns Ok(()) when it succeeds.
Throw_advertise(t) ==
    LET me == th[t]
        b == me.bk
        old == me.old_reader_bitmap
    IN  /\ me.pc = "throw_advertise"
        /\ \/ /\ CasOk(reader_bitmap[b], old)
              /\ reader_bitmap' =
                    [reader_bitmap EXCEPT ![b] = ThrowNewReader(old, me.spot)]
              /\ Set(t, Returned(t, "Ok", me.raw))
              /\ inserted' = IF Counted(t) THEN inserted \cup {me.raw}
                              ELSE inserted
              /\ UNCHANGED <<writer_bitmap, dump, taken, drained, deposited,
                             nspurious>>
           \/ /\ CasFails(reader_bitmap[b], old)
              /\ Set(t, [me EXCEPT !.old_reader_bitmap = CasErr(reader_bitmap[b], old)])
              /\ CountSpurious(reader_bitmap[b], old)
              /\ UNCHANGED <<shared, ghosts>>
        /\ UNCHANGED <<nextAddr, quietTakes>>
        /\ UNCHANGED wrapper

\* ---------------------------------------------------------- Dump::recycle

\* Mutant: reports empty while only the last slot is readable.
IsEmpty_low(first_set_spot) == first_set_spot >= BITS - 1

\* first_set_spot == usize::BITS
IsEmpty(first_set_spot) == first_set_spot = BITS

\* Mutant: the claim does not clear the reader bit.
RecycleNewReader_keep(old, first_set_spot) == old

\* unset!(old_reader_bitmap, usize, first_set_spot)
RecycleNewReader(old, first_set_spot) == unset(old, first_set_spot)

\* Mutant: the release does not clear the writer bit.
RecycleNewWriter_keep(old, first_set_spot) == old

\* unset!(old_writer_bitmap, usize, first_set_spot)
RecycleNewWriter(old, first_set_spot) == unset(old, first_set_spot)

\* recycle() is called and loads reader_bitmap.
Recycle_load(t, b) ==
    /\ th[t].pc = "idle"
    /\ Set(t, [Idle EXCEPT !.pc = "recycle_claim", !.op = "recycle", !.bk = b,
                           !.old_reader_bitmap = reader_bitmap[b],
                           !.present = Readable(b)])
    /\ UNCHANGED <<shared, ghosts, nextAddr, quietTakes, nspurious>>
    /\ UNCHANGED wrapper

\* The read of dump[first_set_spot] performed before the claim
\* compare-exchange, which is Relaxed and so does not order it.
Recycle_hoist(t) ==
    LET me == th[t]
        first_set_spot == trailing_zeros(me.old_reader_bitmap)
    IN  /\ me.pc = "recycle_claim"
        /\ ~IsEmpty(first_set_spot)
        /\ me.retval = NoVal
        /\ Set(t, [me EXCEPT !.retval = dump[me.bk][first_set_spot]])
        /\ UNCHANGED <<shared, ghosts, nextAddr, quietTakes, nspurious>>
        /\ UNCHANGED wrapper

\* One turn of the claim loop: empty, or a compare-exchange on reader_bitmap.
Recycle_claim(t) ==
    LET me == th[t]
        b == me.bk
        old == me.old_reader_bitmap
        first_set_spot == trailing_zeros(old)
    IN  /\ me.pc = "recycle_claim"
        /\ \/ /\ IsEmpty(first_set_spot)
              /\ Set(t, Returned(t, "None", Null))
              /\ UNCHANGED <<shared, ghosts, nspurious>>
           \/ /\ ~IsEmpty(first_set_spot)
              /\ CasOk(reader_bitmap[b], old)
              /\ reader_bitmap' =
                    [reader_bitmap EXCEPT ![b] = RecycleNewReader(old, first_set_spot)]
              /\ Set(t, [me EXCEPT !.pc = "recycle_read",
                                   !.spot = first_set_spot,
                                   !.old_reader_bitmap = 0])
              /\ UNCHANGED <<writer_bitmap, dump, ghosts, nspurious>>
           \/ /\ ~IsEmpty(first_set_spot)
              /\ CasFails(reader_bitmap[b], old)
              /\ Set(t, [me EXCEPT !.old_reader_bitmap = CasErr(reader_bitmap[b], old),
                                   !.retval = NoVal])
              /\ CountSpurious(reader_bitmap[b], old)
              /\ UNCHANGED <<shared, ghosts>>
        /\ UNCHANGED <<nextAddr, quietTakes>>
        /\ UNCHANGED wrapper

\* let retval = (*dump_ptr)[first_set_spot], unless it was read ahead.
Recycle_read(t) ==
    LET me == th[t]
    IN  /\ me.pc = "recycle_read"
        /\ Set(t, [me EXCEPT !.pc = "recycle_wload",
                             !.retval = IF me.retval = NoVal
                                        THEN dump[me.bk][me.spot]
                                        ELSE me.retval])
        /\ UNCHANGED <<shared, ghosts, nextAddr, quietTakes, nspurious>>
        /\ UNCHANGED wrapper

\* self.writer_bitmap.load(Relaxed)
Recycle_wload(t) ==
    LET me == th[t]
    IN  /\ me.pc = "recycle_wload"
        /\ Set(t, [me EXCEPT !.pc = "recycle_release",
                             !.old_writer_bitmap = writer_bitmap[me.bk]])
        /\ UNCHANGED <<shared, ghosts, nextAddr, quietTakes, nspurious>>
        /\ UNCHANGED wrapper

\* One turn of the release loop; recycle() returns Some(retval) on success.
Recycle_release(t) ==
    LET me == th[t]
        b == me.bk
        old == me.old_writer_bitmap
    IN  /\ me.pc = "recycle_release"
        /\ \/ /\ CasOk(writer_bitmap[b], old)
              /\ writer_bitmap' =
                    [writer_bitmap EXCEPT ![b] = RecycleNewWriter(old, me.spot)]
              /\ Set(t, Returned(t, "Some", me.retval))
              /\ taken' = IF Counted(t)
                           THEN [taken EXCEPT ![me.retval] = @ + 1]
                           ELSE taken
              /\ quietTakes' = IF Counted(t) THEN quietTakes + 1
                                ELSE quietTakes
              /\ UNCHANGED <<reader_bitmap, dump, inserted, drained, deposited,
                             nspurious>>
           \/ /\ CasFails(writer_bitmap[b], old)
              /\ Set(t, [me EXCEPT !.old_writer_bitmap = CasErr(writer_bitmap[b], old)])
              /\ CountSpurious(writer_bitmap[b], old)
              /\ UNCHANGED <<shared, ghosts, quietTakes>>
        /\ UNCHANGED nextAddr
        /\ UNCHANGED wrapper

\* ------------------------------------------------------------ Dump::clear

\* Mutant: the swap leaves reader_bitmap as it was.
ClearNewReader_keep(old) == old

\* let new_reader_bitmap = 0
ClearNewReader(old) == 0

\* Mutant: the loop runs over the new reader bitmap, which is zero.
ClearCopy_new(old) == 0

\* let mut old_reader_bitmap_copy = old_reader_bitmap
ClearCopy(old) == old

\* Mutant: sets writer_bitmap to 0.
ClearNewWriter_zero(old_writer, old_reader) == 0

\* Mutant: the release leaves writer_bitmap as it was.
ClearNewWriter_keep(old_writer, old_reader) == old_writer

\* old_writer_bitmap & !old_reader_bitmap
ClearNewWriter(old_writer, old_reader) == AndNot(old_writer, old_reader)

\* clear() is called and loads reader_bitmap.
Clear_load(t, b) ==
    /\ th[t].pc = "idle"
    /\ Set(t, [Idle EXCEPT !.pc = "clear_swap", !.op = "clear", !.bk = b,
                           !.old_reader_bitmap = reader_bitmap[b],
                           !.before = inserted])
    /\ UNCHANGED <<shared, ghosts, nextAddr, quietTakes, nspurious>>
    /\ UNCHANGED wrapper

\* A read of dump[i], i a bit of old_reader_bitmap, performed before the
\* swap compare-exchange, which is Relaxed and so does not order it.
Clear_hoist(t) ==
    LET me == th[t]
    IN  /\ me.pc = "clear_swap"
        /\ \E i \in BitSet(me.old_reader_bitmap) :
              /\ me.early[i] = NoVal
              /\ Set(t, [me EXCEPT !.early[i] = dump[me.bk][i]])
        /\ UNCHANGED <<shared, ghosts, nextAddr, quietTakes, nspurious>>
        /\ UNCHANGED wrapper

\* One turn of the swap loop: nothing to clear, or reader_bitmap swapped to 0.
Clear_swap(t) ==
    LET me == th[t]
        b == me.bk
        old == me.old_reader_bitmap
    IN  /\ me.pc = "clear_swap"
        /\ \/ /\ old = 0
              /\ Set(t, Returned(t, "Unit", Null))
              /\ UNCHANGED <<shared, ghosts, quietTakes, nspurious>>
           \/ /\ old # 0
              /\ CasOk(reader_bitmap[b], old)
              /\ reader_bitmap' = [reader_bitmap EXCEPT ![b] = ClearNewReader(old)]
              /\ Set(t, [me EXCEPT !.pc = "clear_iter",
                                   !.old_reader_bitmap_copy = ClearCopy(old),
                                   !.before = inserted,
                                   !.snap = Readable(b)])
              /\ quietTakes' = 0
              /\ UNCHANGED <<writer_bitmap, dump, ghosts, nspurious>>
           \/ /\ old # 0
              /\ CasFails(reader_bitmap[b], old)
              /\ Set(t, [me EXCEPT !.old_reader_bitmap = CasErr(reader_bitmap[b], old),
                                   !.before = inserted,
                                   !.early = NoEarly])
              /\ CountSpurious(reader_bitmap[b], old)
              /\ UNCHANGED <<shared, ghosts, quietTakes>>
        /\ UNCHANGED nextAddr
        /\ UNCHANGED wrapper

\* One turn of the loop over the snapshot: f(dump[first_set_spot]), or the
\* load of writer_bitmap once the copy is exhausted.
Clear_iter(t) ==
    LET me == th[t]
        first_set_spot == trailing_zeros(me.old_reader_bitmap_copy)
        val_at_index == IF me.early[first_set_spot] = NoVal
                        THEN dump[me.bk][first_set_spot]
                        ELSE me.early[first_set_spot]
    IN  /\ me.pc = "clear_iter"
        /\ \/ /\ first_set_spot = BITS
              /\ Set(t, [me EXCEPT !.pc = "clear_release",
                                   !.old_writer_bitmap = writer_bitmap[me.bk],
                                   !.early = NoEarly])
              /\ UNCHANGED <<ghosts, heap>>
           \/ /\ first_set_spot # BITS
              /\ Counted(t)
              /\ Set(t, [me EXCEPT !.old_reader_bitmap_copy =
                                       unset(@, first_set_spot),
                                   !.fed[val_at_index] = @ + 1])
              /\ drained' = [drained EXCEPT ![val_at_index] = @ + 1]
              /\ UNCHANGED <<inserted, taken, deposited, heap>>
           \/ /\ first_set_spot # BITS
              /\ ~Counted(t)
              /\ Set(t, [me EXCEPT !.old_reader_bitmap_copy =
                                       unset(@, first_set_spot)])
              /\ underlying_free(val_at_index)
              /\ UNCHANGED ghosts
        /\ UNCHANGED <<shared, nextAddr, quietTakes, nspurious, MEMORY_MAP,
                       held, ncalls>>

\* One turn of the last loop: writer_bitmap &= !old_reader_bitmap.
Clear_release(t) ==
    LET me == th[t]
        b == me.bk
        old == me.old_writer_bitmap
    IN  /\ me.pc = "clear_release"
        /\ \/ /\ CasOk(writer_bitmap[b], old)
              /\ writer_bitmap' =
                    [writer_bitmap EXCEPT ![b] = ClearNewWriter(old, me.old_reader_bitmap)]
              /\ Set(t, Returned(t, "Unit", Null))
              /\ UNCHANGED <<reader_bitmap, dump, ghosts, nspurious>>
           \/ /\ CasFails(writer_bitmap[b], old)
              /\ Set(t, [me EXCEPT !.old_writer_bitmap = CasErr(writer_bitmap[b], old)])
              /\ CountSpurious(writer_bitmap[b], old)
              /\ UNCHANGED <<shared, ghosts>>
        /\ UNCHANGED <<nextAddr, quietTakes>>
        /\ UNCHANGED wrapper

\* ---------------------------------------------------------------- FreeList

\* Mutant: every size is sent to the first bucket.
power_first(size) == 0

\* let power = size.trailing_zeros(), for a size that is a power of two
power_of(size) == tz(size, NBuckets + 1)

\* The locals of a thread that calls a FreeList method with `size`.
FL_call(t, op, size) ==
    [Idle EXCEPT !.op = op, !.via = "FreeList", !.size = size]

\* What a recycle() in progress remembers of the state it was called in.
FL_called(t, r) ==
    [r EXCEPT !.present = FLReadable,
              !.solo = \A u \in Threads \ {t} : th[u].pc = "idle"]

\* Thread t starts a call with locals r; the calls in progress are no
\* longer alone.
Enter(t, r) ==
    th' = [u \in Threads |->
              IF u = t THEN r
              ELSE IF th[u].pc # "idle" \/ th[u].trip
              THEN [th[u] EXCEPT !.solo = FALSE, !.trip = FALSE]
              ELSE th[u]]

\* FreeList::throw(ptr, size) with a fresh ptr, up to the first load of
\* Dump::throw on the bucket of the size.
FL_throw(t, size) ==
    LET call == FL_call(t, "throw", size)
        power == power_of(size)
    IN  /\ th[t].pc = "idle"
        /\ nextAddr <= MaxAddr
        /\ IF ~is_power_of_two(size)
           THEN /\ Enter(t, [call EXCEPT !.res = "SizeNotPowerOf2"])
                /\ UNCHANGED <<deposited, nextAddr>>
           ELSE IF power < NBuckets
           THEN /\ Enter(t, [call EXCEPT !.pc = "throw_claim", !.bk = power,
                                         !.raw = nextAddr,
                                         !.old_writer_bitmap = writer_bitmap[power]])
                /\ deposited' = [deposited EXCEPT ![nextAddr] = size]
                /\ nextAddr' = nextAddr + 1
           ELSE /\ Enter(t, [call EXCEPT !.res = "BucketNotAvailable"])
                /\ UNCHANGED <<deposited, nextAddr>>
        /\ UNCHANGED <<shared, inserted, taken, drained, quietTakes, nspurious>>
        /\ UNCHANGED wrapper

\* FreeList::recycle(size), up to the first load of Dump::recycle on the
\* bucket of the size.
FL_recycle(t, size) ==
    LET call == FL_call(t, "recycle", size)
        power == power_of(size)
    IN  /\ th[t].pc = "idle"
        /\ IF ~is_power_of_two(size)
           THEN Enter(t, [call EXCEPT !.res = "SizeNotPowerOf2"])
           ELSE IF power < NBuckets
           THEN Enter(t, FL_called(t,
                         [call EXCEPT !.pc = "recycle_claim", !.bk = power,
                                      !.old_reader_bitmap = reader_bitmap[power]]))
           ELSE Enter(t, [call EXCEPT !.res = "BucketNotAvailable"])
        /\ UNCHANGED <<shared, ghosts, nextAddr, quietTakes, nspurious>>
        /\ UNCHANGED wrapper

\* FreeList::clear_bucket(size, f), up to the first load of Dump::clear on
\* the bucket of the size.
FL_clear_bucket(t, size) ==
    LET call == FL_call(t, "clear", size)
        power == power_of(size)
    IN  /\ th[t].pc = "idle"
        /\ IF ~is_power_of_two(size)
           THEN Enter(t, [call EXCEPT !.res = "SizeNotPowerOf2"])
           ELSE IF power < NBuckets
           THEN Enter(t, [call EXCEPT !.pc = "clear_swap", !.bk = power,
                                      !.old_reader_bitmap = reader_bitmap[power],
                                      !.before = inserted])
           ELSE Enter(t, [call EXCEPT !.res = "BucketNotAvailable"])
        /\ UNCHANGED <<shared, ghosts, nextAddr, quietTakes, nspurious>>
        /\ UNCHANGED wrapper

\* ---------------------------------------------------------------- calloc.rs

\* The values of a size_t.
Words == 0 .. (Pow2(SizeBits) - 1)

\* nmemb * size of two size_t in a release build: the product modulo 2^W.
wrapping_mul(x, y) == (x * y) % Pow2(SizeBits)

RECURSIVE ceil_pow2(_, _)
\* The smallest power of two that is at least x, from p upwards.
ceil_pow2(x, p) == IF p >= x THEN p ELSE ceil_pow2(x, 2 * p)

\* usize::next_power_of_two in a release build: 1 for 0, and 0 when the
\* power of two does not fit in a size_t.
next_power_of_two(x) == ceil_pow2(x, 1) % Pow2(SizeBits)

\* What underlying_calloc may return: null, or an address it has not handed
\* out or has been given back.
HostOffers == {Null} \cup {a \in Addrs : heap[a] = NotLive}

\* Mutant: calloc() asks underlying_calloc whatever recycle() returned.
calloc_res_host(res, ptr) == HostOffers

\* calloc(): let res = match res { Ok(ptr) => ptr, Err(_) =>
\* underlying_calloc(new_nmemb, new_size) }
calloc_res(res, ptr) == IF res = "Some" THEN {ptr} ELSE HostOffers

\* The locals of a thread that calls a function of calloc.rs.
W_call(fn, op) == [Idle EXCEPT !.fn = fn, !.via = "Wrapper", !.op = op]

\* The thread has returned `val` from a function of calloc.rs, having made
\* the call `host` of the host allocator; its locals are dead.
W_returned(t, val, host) ==
    [Idle EXCEPT !.fn = th[t].fn, !.via = "Wrapper", !.val = val,
                 !.host = host]

\* Mutant: the entry of a deposited address is removed from the map.
FreeKeeps_drop(res) == FALSE

\* free(): the entry of ptr stays in MEMORY_MAP unless throw() returned
\* BucketFull.
FreeKeeps(res) == res # "BucketFull"

\* Mutant: every block is recorded in MEMORY_MAP.
Recyclable_always(res) == TRUE

\* calloc(): recyclable, after the match on the result of recycle().
Recyclable(res) == res \in {"Some", "BucketEmpty"}

\* calloc(nmemb, size, underlying_calloc), up to the first load of
\* Dump::recycle on the bucket of the rounded size.
calloc(t, nmemb, size) ==
    LET next_power_of_2 == next_power_of_two(wrapping_mul(nmemb, size))
        again == th[t].fn = "free" /\ th[t].size = next_power_of_2
        call == [W_call("calloc", "recycle") EXCEPT
                    !.nmemb = nmemb, !.csize = size, !.size = next_power_of_2,
                    !.back = IF again THEN th[t].back ELSE NoVal,
                    !.trip = again /\ th[t].trip]
        power == power_of(next_power_of_2)
    IN  /\ th[t].pc = "idle"
        /\ IF ~is_power_of_two(next_power_of_2)
           THEN Enter(t, [call EXCEPT !.pc = "calloc_match",
                                      !.res = "SizeNotPowerOf2"])
           ELSE IF power < NBuckets
           THEN Enter(t, FL_called(t,
                         [call EXCEPT !.pc = "recycle_claim", !.bk = power,
                                      !.old_reader_bitmap = reader_bitmap[power]]))
           ELSE Enter(t, [call EXCEPT !.pc = "calloc_match",
                                      !.res = "BucketNotAvailable"])
        /\ ncalls < MaxCalls
        /\ ncalls' = ncalls + 1
        /\ UNCHANGED <<shared, ghosts, nextAddr, quietTakes, nspurious,
                       MEMORY_MAP, heap, held>>

\* calloc() from the match on the result of recycle() to its return: the
\* block is the recycled one or one of underlying_calloc, and is recorded
\* in MEMORY_MAP if recyclable.
calloc_match(t) ==
    LET me == th[t]
        recyclable == Recyclable(me.res)
        new_nmemb == IF recyclable THEN 1 ELSE me.nmemb
        new_size == IF recyclable THEN me.size ELSE me.csize
    IN  /\ me.pc = "calloc_match"
        /\ IF me.res = "BucketFull"
           THEN /\ Set(t, [me EXCEPT !.pc = "unreachable"])
                /\ UNCHANGED <<MEMORY_MAP, heap, held>>
           ELSE \E res \in calloc_res(me.res, me.val) :
                   /\ heap' = IF me.res = "Some" \/ res = Null THEN heap
                              ELSE [heap EXCEPT ![res] = new_nmemb * new_size]
                   /\ MEMORY_MAP' =
                         IF recyclable
                         THEN [MEMORY_MAP EXCEPT
                                  ![t][res] = wrapping_mul(new_nmemb, new_size)]
                         ELSE MEMORY_MAP
                   /\ held' = IF res = Null THEN held ELSE held \cup {res}
                   /\ Set(t, W_returned(t, res,
                             IF me.res = "Some" THEN "none" ELSE "calloc"))
        /\ UNCHANGED <<shared, ghosts, nextAddr, quietTakes, nspurious,
                       ncalls>>

\* free(ptr, underlying_free) of an address the caller holds, or of null:
\* the lookup of ptr in MEMORY_MAP and, if it has an entry, the call of
\* FREELIST.throw up to the first load of Dump::throw on the bucket of the
\* recorded size.
free(t, ptr) ==
    LET size == MEMORY_MAP[t][ptr]
        power == power_of(size)
        call == [W_call("free", "throw") EXCEPT
                    !.raw = ptr, !.size = size, !.back = ptr,
                    !.trip = /\ \A u \in Threads \ {t} : th[u].pc = "idle"
                             /\ power < NBuckets
                             /\ writer_bitmap[power] = 0]
    IN  /\ th[t].pc = "idle"
        /\ ptr \in held \cup {Null}
        /\ held' = held \ {ptr}
        /\ IF size = 0
           THEN Enter(t, [W_call("free", "none") EXCEPT
                             !.pc = "free_else", !.raw = ptr])
           ELSE IF ~is_power_of_two(size)
           THEN Enter(t, [call EXCEPT !.pc = "free_match",
                                      !.res = "SizeNotPowerOf2"])
           ELSE IF power < NBuckets
           THEN Enter(t, [call EXCEPT
                             !.pc = "throw_claim", !.bk = power,
                             !.old_writer_bitmap = writer_bitmap[power]])
           ELSE Enter(t, [call EXCEPT !.pc = "free_match",
                                      !.res = "BucketNotAvailable"])
        /\ ncalls < MaxCalls
        /\ ncalls' = ncalls + 1
        /\ UNCHANGED <<shared, ghosts, nextAddr, quietTakes, nspurious,
                       MEMORY_MAP, heap>>

\* free() of an address MEMORY_MAP has no entry for: underlying_free(ptr).
free_else(t) ==
    LET me == th[t]
    IN  /\ me.pc = "free_else"
        /\ underlying_free(me.raw)
        /\ Set(t, [W_returned(t, Null, "free") EXCEPT !.raw = me.raw])
        /\ UNCHANGED <<shared, ghosts, nextAddr, quietTakes, nspurious,
                       MEMORY_MAP, held, ncalls>>

\* free() from the match on the result of throw() to its return.
free_match(t) ==
    LET me == th[t]
    IN  /\ me.pc = "free_match"
        /\ IF me.res \notin {"Ok", "BucketFull"}
           THEN /\ Set(t, [me EXCEPT !.pc = "unreachable"])
                /\ UNCHANGED <<MEMORY_MAP, heap>>
           ELSE IF FreeKeeps(me.res)
           THEN /\ Set(t, [W_returned(t, Null, "none") EXCEPT
                              !.raw = me.raw, !.size = me.size,
                              !.back = me.back, !.trip = me.trip])
                /\ UNCHANGED <<MEMORY_MAP, heap>>
           ELSE /\ MEMORY_MAP' = [MEMORY_MAP EXCEPT ![t][me.raw] = 0]
                /\ underlying_free(me.raw)
                /\ Set(t, [W_returned(t, Null, "free") EXCEPT
                              !.raw = me.raw, !.size = me.size,
                              !.back = me.back])
        /\ UNCHANGED <<shared, ghosts, nextAddr, quietTakes, nspurious, held,
                       ncalls>>

\* clear_freelist(underlying_free), up to the first load of Dump::clear on
\* the first bucket: FreeList::clear goes through the buckets in order.
clear_freelist(t) ==
    /\ th[t].pc = "idle"
    /\ Enter(t, [W_call("clear_freelist", "clear") EXCEPT
                    !.pc = "clear_swap", !.bk = 0,
                    !.old_reader_bitmap = reader_bitmap[0]])
    /\ ncalls < MaxCalls
    /\ ncalls' = ncalls + 1
    /\ UNCHANGED <<shared, ghosts, nextAddr, quietTakes, nspurious,
                   MEMORY_MAP, heap, held>>

\* FreeList::clear: Dump::clear of the next bucket, or the return of
\* clear_freelist() after the last.
clear_next(t) ==
    LET me == th[t]
        idx == me.bk + 1
    IN  /\ me.pc = "clear_next"
        /\ IF idx < NBuckets
           THEN Set(t, [W_call("clear_freelist", "clear") EXCEPT
                           !.pc = "clear_swap", !.bk = idx,
                           !.old_reader_bitmap = reader_bitmap[idx]])
           ELSE Set(t, W_returned(t, Null, "none"))
        /\ UNCHANGED <<shared, ghosts, nextAddr, quietTakes, nspurious,
                       wrapper>>

\* ---------------------------------------------------------- specification

\* The Dump the threads of Spec share.
Pool == 0

\* A step of a call in progress, in program order.
Step(t) ==
    \/ Throw_claim(t)
    \/ Throw_write(t)
    \/ Throw_rload(t)
    \/ Throw_advertise(t)
    \/ Recycle_claim(t)
    \/ Recycle_read(t)
    \/ Recycle_wload(t)
    \/ Recycle_release(t)
    \/ Clear_swap(t)
    \/ Clear_iter(t)
    \/ Clear_release(t)

\* A thread calls throw, recycle or clear on one pool, bucket 0.
Call(t) ==
    \/ Throw_load(t, Pool)
    \/ Recycle_load(t, Pool)
    \/ Clear_load(t, Pool)

\* A read of dump[] made ahead of the Relaxed compare-exchange that claims it.
Hoist(t) ==
    \/ Recycle_hoist(t)
    \/ Clear_hoist(t)

Next == \E t \in Threads : Call(t) \/ Step(t)

Spec == Init /\ [][Next]_vars

NextRelaxed == \E t \in Threads : Call(t) \/ Step(t) \/ Hoist(t)

SpecRelaxed == Init /\ [][NextRelaxed]_vars

\* Thread 1 takes a step of its call whenever it has one to take; the other
\* threads are scheduled in any way, and may stop in the middle of a call.
SpecFair == Spec /\ WF_vars(Step(1))

\* A step of a throw() or recycle() in progress.
StepTakes(t) ==
    \/ Throw_claim(t)
    \/ Throw_write(t)
    \/ Throw_rload(t)
    \/ Throw_advertise(t)
    \/ Recycle_claim(t)
    \/ Recycle_read(t)
    \/ Recycle_wload(t)
    \/ Recycle_release(t)

\* Threads call throw and recycle on one pool; no clear runs.
NextTakes ==
    \E t \in Threads :
        Throw_load(t, Pool) \/ Recycle_load(t, Pool) \/ StepTakes(t)

\* Every call in progress goes on, and every thread calls recycle() again
\* and again.
SpecTakes ==
    /\ Init /\ [][NextTakes]_vars
    /\ \A t \in Threads :
          WF_vars(StepTakes(t)) /\ WF_vars(Recycle_load(t, Pool))

\* SpecTakes with the orderings of the source: the read of recycle() may be
\* made ahead of its Relaxed compare-exchange.
NextTakesRelaxed ==
    \E t \in Threads :
        \/ Throw_load(t, Pool) \/ Recycle_load(t, Pool)
        \/ StepTakes(t) \/ Recycle_hoist(t)

SpecTakesRelaxed ==
    /\ Init /\ [][NextTakesRelaxed]_vars
    /\ \A t \in Threads :
          WF_vars(StepTakes(t)) /\ WF_vars(Recycle_load(t, Pool))

\* A thread calls throw or recycle of the FreeList with any size.
FL_Call(t) == \E size \in Sizes : FL_throw(t, size) \/ FL_recycle(t, size)

NextFL == \E t \in Threads : FL_Call(t) \/ StepTakes(t)

SpecFL == Init /\ [][NextFL]_vars

\* Thread 1 calls throw, recycle or clear_bucket of the FreeList with any
\* size while the other threads call clear_bucket.
NextBucket ==
    \/ \E size \in Sizes :
          FL_throw(1, size) \/ FL_recycle(1, size) \/ FL_clear_bucket(1, size)
    \/ \E t \in Threads \ {1} : \E size \in Sizes : FL_clear_bucket(t, size)
    \/ \E t \in Threads : Step(t)

SpecBucket == Init /\ [][NextBucket]_vars

\* A step of a function of calloc.rs after its FreeList call returned.
W_Step(t) ==
    calloc_match(t) \/ free_else(t) \/ free_match(t) \/ clear_next(t)

\* The sizes of the blocks the threads of SpecWrapper and SpecSolo ask
\* for: one for each bucket, and the first without a bucket.
Requests == {Pow2(i) : i \in 0 .. NBuckets}

\* Thread 1 calls calloc for one element of a size of Requests, free or
\* clear_freelist.
W_Call ==
    \/ \E size \in Requests : calloc(1, 1, size)
    \/ \E ptr \in Vals : free(1, ptr)
    \/ clear_freelist(1)

\* Another thread calls calloc for one byte, or free.
W_Other(t) == calloc(t, 1, 1) \/ \E ptr \in Vals : free(t, ptr)

\* At most MaxRaced calls of calloc.rs, made by thread 1 and by the other
\* threads, with the orderings of the source.
NextWrapper ==
    \/ ncalls < MaxRaced /\ W_Call
    \/ ncalls < MaxRaced /\ \E t \in Threads \ {1} : W_Other(t)
    \/ \E t \in Threads : W_Step(t) \/ Step(t) \/ Hoist(t)

SpecWrapper == Init /\ [][NextWrapper]_vars

\* Thread 1 alone makes at most MaxCalls calls of calloc.rs.
NextSolo == W_Call \/ W_Step(1) \/ Step(1)

SpecSolo == Init /\ [][NextSolo]_vars

\* Thread 1 alone makes at most MaxWordCalls calls: calloc with any two
\* words, free or clear_freelist.
NextWords ==
    \/ /\ ncalls < MaxWordCalls
       /\ \E nmemb \in Words, size \in Words : calloc(1, nmemb, size)
    \/ /\ ncalls < MaxWordCalls
       /\ \E ptr \in Vals : free(1, ptr)
    \/ /\ ncalls < MaxWordCalls
       /\ clear_freelist(1)
    \/ W_Step(1)
    \/ Step(1)

SpecWords == Init /\ [][NextWords]_vars

\* ------------------------------------------------------------------ claims

RECURSIVE Total(_, _)
\* f[0] + ... + f[n]
Total(f, n) == IF n < 0 THEN 0 ELSE f[n] + Total(f, n - 1)

Quiescent == \A t \in Threads : th[t].pc = "idle"

\* The lowest-indexed zero bit of x, found by search.
LowestZero(x) ==
    CHOOSE i \in Slots : Bit(x, i) = 0 /\ \A j \in Slots : j < i => Bit(x, j) = 1

\* C1. No double hand-out: every address handed to throw() is delivered at
\* most once, counting the recycle() calls that returned it and the clear()
\* closure calls that received it.
C1_NoDoubleHandOut == \A a \in Addrs : taken[a] + drained[a] <= 1

\* An address was returned by a recycle() and another given to a clear()
\* closure while a third call is still in progress.
C1_Witness ==
    /\ \E a \in Addrs : taken[a] = 1
    /\ \E a \in Addrs : drained[a] = 1
    /\ ~Quiescent

\* C2. Conservation at quiescence: when every call has returned and no
\* clear() has drained anything, the readable addresses are, as a multiset,
\* the addresses whose throw() returned Ok minus those recycle() returned,
\* and writer_bitmap equals reader_bitmap.
C2_Conservation ==
    (Quiescent /\ \A a \in Vals : drained[a] = 0) =>
        /\ \A a \in Vals :
              Cardinality({i \in BitSet(reader_bitmap[Pool]) : dump[Pool][i] = a})
                 + taken[a] = (IF a \in inserted THEN 1 ELSE 0)
        /\ writer_bitmap[Pool] = reader_bitmap[Pool]

\* Quiescent after throws and recycles only, one address taken and one
\* still readable.
C2_Witness ==
    /\ Quiescent
    /\ \A a \in Vals : drained[a] = 0
    /\ \E a \in Addrs : taken[a] = 1
    /\ reader_bitmap[Pool] # 0

\* The thread's next step writes dump[b][i].
WritesSlot(t, b, i) ==
    th[t].pc = "throw_write" /\ th[t].bk = b /\ th[t].spot = i

\* The thread has claimed dump[b][i] for reading and has not read it yet.
ReadsSlot(t, b, i) ==
    \/ th[t].pc = "recycle_read" /\ th[t].bk = b /\ th[t].spot = i
    \/ /\ th[t].pc = "clear_iter" /\ th[t].bk = b
       /\ i \in BitSet(th[t].old_reader_bitmap_copy)

\* C3. Slot exclusion: a slot about to be written has its writer bit set
\* and its reader bit clear, a slot about to be read has its reader bit
\* clear and its writer bit still set, and no two threads are about to
\* access the same slot.
C3_SlotExclusion ==
    \A b \in Buckets, i \in Slots :
        /\ \A t \in Threads :
              (WritesSlot(t, b, i) \/ ReadsSlot(t, b, i)) =>
                  Bit(writer_bitmap[b], i) = 1 /\ Bit(reader_bitmap[b], i) = 0
        /\ Cardinality({t \in Threads : WritesSlot(t, b, i) \/ ReadsSlot(t, b, i)}) <= 1

\* Thread t reads dump[b][i] in this step, in program order or ahead of it.
ReadStep(t, b, i) ==
    /\ th[t].bk = b
    /\ \/ /\ th[t].pc \in {"recycle_claim", "recycle_read"}
          /\ th[t].retval = NoVal /\ th'[t].retval # NoVal
          /\ i = (IF th[t].pc = "recycle_read" THEN th[t].spot
                  ELSE trailing_zeros(th[t].old_reader_bitmap))
       \/ /\ th[t].pc = "clear_swap" /\ th'[t].pc = "clear_swap"
          /\ th[t].early[i] = NoVal /\ th'[t].early[i] # NoVal
       \/ /\ th[t].pc = "clear_iter" /\ th[t].early[i] = NoVal
          /\ i = trailing_zeros(th[t].old_reader_bitmap_copy)
          /\ th'[t].old_reader_bitmap_copy # th[t].old_reader_bitmap_copy

\* C3 with the reads themselves: slot exclusion holds by the bitmaps, and
\* no thread reads a slot that another thread has claimed for writing and
\* is about to write, or has claimed for reading.
C3_SlotAccess ==
    /\ []C3_SlotExclusion
    /\ [][\A t \in Threads, b \in Buckets, i \in Slots :
            ReadStep(t, b, i) =>
                \A u \in Threads \ {t} :
                    ~WritesSlot(u, b, i) /\ ~ReadsSlot(u, b, i)]_vars

\* One thread is about to write one slot while another is about to read
\* another slot of the same pool.
C3_Witness ==
    \E t, u \in Threads, i, j \in Slots :
        t # u /\ i # j /\ WritesSlot(t, Pool, i) /\ ReadsSlot(u, Pool, j)

\* C4. Bitmap inclusion: every bit set in reader_bitmap is set in
\* writer_bitmap.
C4_ReaderSubsetWriter ==
    \A b \in Buckets : \A i \in Slots :
        Bit(reader_bitmap[b], i) = 1 => Bit(writer_bitmap[b], i) = 1

\* A slot is readable while another is claimed and not readable.
C4_Witness ==
    \E i, j \in Slots :
        /\ Bit(reader_bitmap[Pool], i) = 1
        /\ Bit(writer_bitmap[Pool], j) = 1 /\ Bit(reader_bitmap[Pool], j) = 0

LeavesThrowClaim(t) == th[t].pc = "throw_claim" /\ th'[t].pc # "throw_claim"

\* C6. throw() returns Err(raw) exactly when the writer_bitmap value it last
\* observed has every bit set, and then changes no bitmap and no slot and
\* does not retry; otherwise it leaves the loop only by claiming the
\* lowest-indexed zero bit of the value it observed.
C6_FullIffSaturated ==
    [][\A t \in Threads :
        /\ (/\ th[t].pc = "throw_claim" /\ th'[t] # th[t]
            /\ th[t].old_writer_bitmap = AllOnes) => LeavesThrowClaim(t)
        /\ LeavesThrowClaim(t) =>
              LET old == th[t].old_writer_bitmap
                  b == th[t].bk
              IN  IF old = AllOnes
                  THEN /\ th'[t].pc = "idle" /\ th'[t].res = "Err"
                       /\ th'[t].val = th[t].raw
                       /\ UNCHANGED shared
                  ELSE /\ th'[t].pc = "throw_write"
                       /\ th'[t].spot = LowestZero(old)
                       /\ writer_bitmap[b] = old
                       /\ writer_bitmap'[b] = old + Pow2(LowestZero(old))
                       /\ UNCHANGED <<reader_bitmap, dump>>]_vars

\* A throw() returned Err while every slot held an address.
C6_Witness ==
    \E t \in Threads :
        /\ th[t].op = "throw" /\ th[t].res = "Err"
        /\ Cardinality(inserted) = BITS
        /\ nextAddr > BITS + 1

\* A step in which the clear() of thread t returns.
ClearReturns(t) ==
    th[t].op = "clear" /\ th[t].pc # "idle" /\ th'[t].pc = "idle"

\* The closure of thread t's clear() was called once with each address
\* readable at its swap, and with nothing else.
FedSnapshot(t) ==
    \A a \in Vals : th[t].fed[a] = (IF a \in th[t].snap THEN 1 ELSE 0)

\* C7. Drain completeness: when a clear() returns, its closure has been
\* called exactly once with each address whose reader bit was set when its
\* compare-exchange swapped reader_bitmap to zero and with no other address
\* (with none when it observed reader_bitmap zero and swapped nothing), and
\* no address advertised before that observation is readable: whatever is
\* readable at the return was advertised by a throw() after it.
C7_DrainCompleteness ==
    [][\A t \in Threads :
        ClearReturns(t) =>
            /\ FedSnapshot(t)
            /\ Readable(th[t].bk)' \cap th[t].before = {}]_vars

\* C7, first half: when a clear() returns, its closure has been called
\* exactly once with each address whose reader bit was set when its
\* compare-exchange swapped reader_bitmap to zero, and with no other address.
C7_DrainFeedsSnapshot ==
    [][\A t \in Threads : ClearReturns(t) => FedSnapshot(t)]_vars

\* A clear() that drained an address is about to return while a throw() has
\* advertised another address since its swap.
C7_Witness ==
    \E t \in Threads :
        /\ th[t].pc = "clear_release" /\ th[t].snap # {} /\ FedSnapshot(t)
        /\ reader_bitmap[th[t].bk] # 0

\* C7 as stated: when a clear() returns, its closure has been called exactly
\* once with each address of its snapshot and the pool is empty
\* (reader_bitmap = 0).
C7_DrainLeavesEmpty ==
    [][\A t \in Threads :
        ClearReturns(t) =>
            /\ FedSnapshot(t)
            /\ reader_bitmap'[th[t].bk] = 0]_vars

\* A step in which the recycle() of thread t returns None.
RecycleReturnsNone(t) == th[t].pc = "recycle_claim" /\ th'[t].pc = "idle"

\* The address was inserted and no recycle() has returned it yet.
InPool(a) == a \in inserted /\ taken[a] = 0 /\ drained[a] = 0

\* C8. Eventual retrieval, with throw() and recycle() calls only: while an
\* inserted address has not been returned, fewer than BITS recycle() calls
\* have returned an address since the last throw() claimed a slot, so the
\* address is returned by the BITS-th such call at the latest; a recycle()
\* returns None only after observing reader_bitmap zero, when no address
\* that was readable at its call is readable; and, the threads calling
\* recycle() again and again, every inserted address is eventually returned.
C8_EventualRetrieval ==
    /\ [](\A a \in Addrs : InPool(a) => quietTakes < BITS)
    /\ [][\A t \in Threads :
            RecycleReturnsNone(t) =>
                /\ th[t].old_reader_bitmap = 0
                /\ th[t].present \cap Readable(th[t].bk)' = {}]_vars
    /\ \A a \in Addrs : (a \in inserted) ~> (taken[a] = 1)

\* An address is still readable after BITS - 1 recycle() calls returned
\* other addresses and one returned None.
C8_Witness ==
    /\ quietTakes = BITS - 1
    /\ \E a \in Readable(Pool) : InPool(a)
    /\ \E t \in Threads : th[t].op = "recycle" /\ th[t].res = "None"

\* C9. Lock-free progress: every call of a thread that keeps taking steps
\* returns, however the other threads are scheduled, even if they stop in
\* the middle of a call.
C9_LockFreeProgress == (th[1].pc # "idle") ~> (th[1].pc = "idle")

\* Thread 1 is about to fail a compare-exchange because the other thread,
\* which is in the middle of a call, changed the bitmap.
C9_Witness ==
    /\ th[1].pc = "throw_advertise"
    /\ th[1].old_reader_bitmap # reader_bitmap[th[1].bk]
    /\ th[2].pc \notin {"idle", "throw_claim", "recycle_claim", "clear_swap"}

\* C9 as stated: a compare-exchange is retried only because another
\* operation changed the bitmap, that is, no compare-exchange fails while
\* the bitmap holds the expected value.
C9_RetryOnlyAfterChange == [][nspurious' = nspurious]_vars

\* A step in which a FreeList::recycle of thread t returns.
FL_RecycleReturns(t) ==
    /\ th'[t] # th[t]
    /\ th'[t].pc = "idle" /\ th'[t].via = "FreeList" /\ th'[t].op = "recycle"

\* C10. Size routing: a FreeList::recycle(size) returns only an address
\* that was thrown with the same size; for a power of two 2^q it returns
\* BucketNotAvailable exactly when q >= N; and when it overlaps no other
\* call, it returns an address thrown with that size if one is in the
\* FreeList at the call, and BucketEmpty otherwise.
C10_SizeRouting ==
    [][\A t \in Threads :
        FL_RecycleReturns(t) =>
            LET size == th'[t].size
                res == th'[t].res
                same == {a \in th[t].present : deposited[a] = size}
            IN  /\ res = "Some" => deposited[th'[t].val] = size
                /\ \A q \in 0 .. NBuckets :
                      size = Pow2(q) =>
                          ((res = "BucketNotAvailable") <=> (q >= NBuckets))
                /\ (th[t].pc # "idle" /\ th[t].solo) =>
                      IF same # {}
                      THEN res = "Some" /\ th'[t].val \in same
                      ELSE res = "BucketEmpty"]_vars

\* A recycle has returned BucketEmpty while an address thrown with another
\* size is in the FreeList, after another recycle returned an address.
C10_Witness ==
    /\ \E a \in Addrs : taken[a] = 1
    /\ \E t \in Threads :
          /\ th[t].pc = "idle" /\ th[t].op = "recycle"
          /\ th[t].res = "BucketEmpty"
          /\ \E a \in FLReadable : deposited[a] # th[t].size

\* A step in which thread t calls a FreeList method.
FL_Calls(t) ==
    /\ th[t].pc = "idle" /\ th'[t] # th[t]
    /\ th'[t].via = "FreeList"

\* The size is 2^q.
IsTwoTo(size, q) == size = Pow2(q)

\* C11. Error classification: FreeList::throw, recycle and clear_bucket
\* called with a size that is zero or has more than one bit set return
\* SizeNotPowerOf2; called with 2^q, q >= N, they return BucketNotAvailable;
\* in both cases no bitmap and no slot changes and no callback is invoked;
\* called with 2^q, q < N, they go on in bucket q, and a step of such a call
\* changes no other bucket.
C11_ErrorClassification ==
    [][\A t \in Threads :
        /\ FL_Calls(t) =>
              LET size == th'[t].size
                  me == th'[t]
              IN  /\ (\A q \in 0 .. NBuckets : ~IsTwoTo(size, q)) =>
                        /\ me.pc = "idle" /\ me.res = "SizeNotPowerOf2"
                        /\ UNCHANGED <<shared, drained>> /\ me.fed = NoneFed
                  /\ \A q \in 0 .. NBuckets :
                        IsTwoTo(size, q) =>
                            IF q >= NBuckets
                            THEN /\ me.pc = "idle"
                                 /\ me.res = "BucketNotAvailable"
                                 /\ UNCHANGED <<shared, drained>>
                                 /\ me.fed = NoneFed
                            ELSE /\ me.pc # "idle" /\ me.bk = q
                                 /\ me.op \in {"throw", "recycle", "clear"}
                                 /\ UNCHANGED shared
        /\ (th[t].pc # "idle" /\ th'[t] # th[t] /\ th[t].via = "FreeList") =>
              /\ IsTwoTo(th[t].size, th[t].bk)
              /\ \A b \in Buckets \ {th[t].bk} :
                    /\ writer_bitmap'[b] = writer_bitmap[b]
                    /\ reader_bitmap'[b] = reader_bitmap[b]
                    /\ dump'[b] = dump[b]
              /\ (th'[t].pc = "idle" =>
                    th'[t].res \notin {"SizeNotPowerOf2", "BucketNotAvailable"})]_vars

\* A clear_bucket has returned BucketNotAvailable and a throw
\* SizeNotPowerOf2 for size zero while an address is readable in a bucket.
C11_Witness ==
    /\ FLReadable # {}
    /\ \E t \in Threads :
          /\ th[t].pc = "idle" /\ th[t].op = "clear"
          /\ th[t].res = "BucketNotAvailable" /\ th[t].size = Pow2(NBuckets)
    /\ \E t \in Threads :
          /\ th[t].pc = "idle" /\ th[t].op = "throw"
          /\ th[t].res = "SizeNotPowerOf2" /\ th[t].size = 0

\* Thread t has claimed a slot in throw() and not advertised it yet.
ClaimedNotAdvertised(t) ==
    th[t].pc \in {"throw_write", "throw_rload", "throw_advertise"}

C15_PublishToObserve ==
    \A t \in Threads :
        /\ (th[t].pc \in {"recycle_read", "recycle_wload", "recycle_release"}
              /\ th[t].retval # NoVal) =>
              th[t].retval = dump[th[t].bk][th[t].spot]
        /\ th[t].pc = "clear_iter" =>
              \A i \in BitSet(th[t].old_reader_bitmap_copy) :
                  th[t].early[i] # NoVal => th[t].early[i] = dump[th[t].bk][i]

\* ------------------------------------------------------- claims, calloc.rs

\* The calloc() of thread t returns.
CallocReturns(t) == th[t].pc = "calloc_match" /\ th'[t].pc = "idle"

Moved(t) ==
    [th'[t] EXCEPT !.solo = FALSE, !.trip = FALSE]
        # [th[t] EXCEPT !.solo = FALSE, !.trip = FALSE]

\* Thread t calls free(ptr).
FreeCalled(t) ==
    th[t].pc = "idle" /\ th'[t].pc # "idle" /\ th'[t].fn = "free"

\* The blocks of the host allocator once it is given back ptr.
GivenBack(ptr) ==
    [a \in Addrs |-> IF a = ptr THEN NotLive ELSE heap[a]]

\* C13. Untracked free bypasses the freelist: a free(addr) on a thread whose
\* map has no entry for addr calls the host free once, with addr, and leaves
\* the buckets and every thread's map as they are.
C13_UntrackedFree ==
    [][\A t \in Threads :
          /\ (FreeCalled(t) /\ MEMORY_MAP[t][th'[t].raw] = 0) =>
                /\ th'[t].pc = "free_else"
                /\ UNCHANGED <<shared, MEMORY_MAP, heap>>
          /\ (th[t].pc = "free_else" /\ Moved(t)) =>
                /\ th'[t].pc = "idle" /\ th'[t].host = "free"
                /\ heap' = GivenBack(th[t].raw)
                /\ UNCHANGED <<shared, MEMORY_MAP>>]_vars

C13_Witness ==
    \E t \in Threads, u \in Threads :
        /\ u # t
        /\ th[t].pc = "idle" /\ th[t].fn = "free" /\ th[t].host = "free"
        /\ th[t].back = NoVal
        /\ th[t].raw \in Addrs
        /\ MEMORY_MAP[u][th[t].raw] # 0
        /\ heap[th[t].raw] = NotLive

\* C14. Bucket size integrity: every non-null address readable in bucket i
\* of FREELIST is a live block of the host allocator of exactly 2^i bytes.
C14_BucketSizeIntegrity ==
    \A b \in Buckets : \A a \in Readable(b) \cap Addrs : heap[a] = Pow2(b)

\* Thread t is in the FREELIST.throw of a free().
InFreeThrow(t) ==
    /\ th[t].fn = "free"
    /\ th[t].pc \in {"throw_claim", "throw_write", "throw_rload",
                     "throw_advertise"}

\* C17. Tracked free outcomes: a free(addr) that finds addr in the map of
\* its thread with size S calls throw(addr, S) on bucket log2 S and until
\* throw returns calls no host free and changes no map; if throw returns Ok
\* addr is readable in the bucket, the host free is not called and the entry
\* is kept; if it returns BucketFull the bucket is as it was, the entry of
\* addr and no other is removed and the host free is called once, with addr.
C17_TrackedFree ==
    [][\A t \in Threads :
          /\ (FreeCalled(t) /\ MEMORY_MAP[t][th'[t].raw] # 0) =>
                /\ th'[t].pc = "throw_claim"
                /\ th'[t].size = MEMORY_MAP[t][th'[t].raw]
                /\ Pow2(th'[t].bk) = th'[t].size
                /\ UNCHANGED <<shared, MEMORY_MAP, heap>>
          /\ (InFreeThrow(t) /\ Moved(t)) =>
                /\ UNCHANGED <<MEMORY_MAP, heap>>
                /\ th'[t].pc = "free_match" =>
                      /\ th'[t].res \in {"Ok", "BucketFull"}
                      /\ th'[t].res = "Ok" <=>
                            \E i \in BitSet(reader_bitmap'[th[t].bk]) :
                                /\ i \notin BitSet(reader_bitmap[th[t].bk])
                                /\ dump[th[t].bk][i] = th[t].raw
                      /\ th'[t].res = "BucketFull" => UNCHANGED shared
          /\ (th[t].pc = "free_match" /\ Moved(t)) =>
                /\ th'[t].pc = "idle"
                /\ UNCHANGED shared
                /\ th[t].res = "Ok" =>
                      /\ th'[t].host = "none"
                      /\ UNCHANGED <<MEMORY_MAP, heap>>
                      /\ MEMORY_MAP[t][th[t].raw] = th[t].size
                /\ th[t].res = "BucketFull" =>
                      /\ th'[t].host = "free"
                      /\ heap' = GivenBack(th[t].raw)
                      /\ MEMORY_MAP' =
                            [MEMORY_MAP EXCEPT ![t][th[t].raw] = 0]]_vars

C17_Witness ==
    \E t \in Threads :
        /\ th[t].pc = "idle" /\ th[t].fn = "free" /\ th[t].host = "free"
        /\ th[t].back \in Addrs
        /\ MEMORY_MAP[t][th[t].back] = 0
        /\ heap[th[t].back] = NotLive
        /\ \A i \in Slots : Bit(reader_bitmap[th[t].bk], i) = 1

\* The sizes FREELIST has a bucket for.
BucketSizes == {Pow2(i) : i \in Buckets}

\* C18. The wrapper never hits an impossible error: every size recorded in
\* a map is a power of two below 2^N, no unreachable!() arm is entered, the
\* throw of free() returns Ok or BucketFull only, the recycle of calloc()
\* never returns BucketFull, and a call that has returned carries no
\* freelist error.
C18_NoImpossibleError ==
    \A t \in Threads :
        /\ \A a \in Vals : MEMORY_MAP[t][a] # 0 => MEMORY_MAP[t][a] \in BucketSizes
        /\ th[t].pc # "unreachable"
        /\ th[t].pc = "free_match" => th[t].res \in {"Ok", "BucketFull"}
        /\ th[t].pc = "calloc_match" =>
              th[t].res \in {"Some", "BucketEmpty", "SizeNotPowerOf2",
                             "BucketNotAvailable"}
        /\ (th[t].pc = "idle" /\ th[t].via = "Wrapper") => th[t].res = "none"

C18_Witness ==
    \E t \in Threads :
        /\ th[t].pc = "free_match" /\ th[t].res = "Ok"
        /\ MEMORY_MAP[t][th[t].raw] = Pow2(NBuckets - 1)
        /\ \E u \in Threads \ {t} : \E a \in Addrs : MEMORY_MAP[u][a] # 0

\* C19. The requested size is never undercut by overflow: the block calloc()
\* returns, from the host or from the freelist, has at least nmemb x size
\* bytes, the product taken over the integers.
C19_SizeNotUndercut ==
    [][\A t \in Threads :
          (CallocReturns(t) /\ th'[t].val # Null) =>
              heap'[th'[t].val] >= th[t].nmemb * th[t].csize]_vars

\* C20. Null is never recycled: calloc() returns null only when the host
\* allocator returned null in that call, null is never readable in a bucket
\* and a recycle() of calloc() never returns null.
C20_NullNeverRecycled ==
    /\ [](\A b \in Buckets : Null \notin Readable(b))
    /\ [](\A t \in Threads :
             (th[t].pc = "calloc_match" /\ th[t].res = "Some") =>
                 th[t].val # Null)
    /\ [][\A t \in Threads :
             (CallocReturns(t) /\ th'[t].val = Null) =>
                 th'[t].host = "calloc"]_vars

=============================================================================
